---- MODULE Spec2Model ----
(***************************************************************************)
(* The simulation controller of backend/app.py (the stepping loop and the  *)
(* request handlers around simulator_lock) over the Simulator of           *)
(* backend/models.py.                                                      *)
(*                                                                         *)
(* Handlers and loops are threads: they interleave at every acquisition of *)
(* simulator_lock and at every statement executed outside it.  Statements  *)
(* executed while the lock is held are grouped up to the points another    *)
(* thread can observe (Simulator.step is split where the positions have    *)
(* been written and the clock has not).                                    *)
(*                                                                         *)
(* Geometry is one-dimensional and integral: a position is a distance      *)
(* along the line to the wall destinations, one unit is the distance an    *)
(* agent covers in one step at its preferred speed, and the clock counts   *)
(* steps (multiples of SIMULATION_DT).                                     *)
(*                                                                         *)
(* Spec is the controller with its loops and requests, FairSpec its start  *)
(* and stop requests under fair scheduling of the handlers, FairLoopSpec   *)
(* the same under fair scheduling of the loops, StartSpec the start        *)
(* requests over Simulators of several agents, TimedSpec the loops and     *)
(* start requests with the wall clock.  SimSpec is the Simulator called    *)
(* directly by one caller, AddSpec its constructor and add_person, EnvSpec *)
(* the Environment and its accessibility query (in the plane).             *)
(***************************************************************************)
EXTENDS Integers, Sequences, FiniteSets, TLC

\* ---------------------------------------------------------------- bounds
\* Stepping threads that may ever be created.
MaxThreads == 2
\* Simulator objects that may ever be constructed (the first one included).
MaxGen == 2
\* Steps of one generation's clock.
MaxTime == 2
\* Farthest initial distance of an agent from its destination.
MaxPos == 4
\* Largest num_persons a request asks for.
MaxPersons == 1
\* Longest list of persons a Simulator is constructed from directly.
MaxAgents == 2
\* Largest coordinate of a point of the plane.
MaxCoord == 2
\* Ticks of the wall clock.
MaxNow == 4

\* ------------------------------------------------------ program constants
\* person_radius of load_persons, in units of 0.1.
PersonRadius == 2

\* The request-handling contexts (two concurrent requests).
Handlers == {-1, -2}
Threads == 1..MaxThreads
Procs == Handlers \cup Threads

\* simulator_lock is free.
Free == 0
\* simulation_thread = None / thread_to_join = None.
NoThread == 0

VARIABLES
    simulator,          \* the global Simulator object (its generation included)
    simulation_thread,  \* the global thread reference
    lock,               \* holder of simulator_lock, or Free
    pc,                 \* position of every handler and every loop thread
    req,                \* the request a handler is serving
    thread_to_join,     \* stop_running_simulation's local
    current_state,      \* the snapshot a thread holds to emit (<<>>: none)
    state_changed,      \* start_simulation's local
    warned,             \* stop_running_simulation printed the join warning
    stepsSinceStop,     \* history: steps executed since a stop cleared is_running
    leaked,             \* history: per thread, how many threads existed when a join
                        \* on it timed out (0: none did)
    oldLoopAlive,       \* history: a loop was alive when the handler replaced the generation
    op,                 \* the last direct call on the Simulator, with what it was given
    steps,              \* history: steps of the generation that ran to the clock write
    now,                \* time.time(), in ticks of 0.05 s
    last_emit_time,     \* simulation_loop's local, per thread
    loop_start_time,    \* simulation_loop's local, per thread
    published_at        \* history: when a loop last emitted a snapshot

vars == <<simulator, simulation_thread, lock, pc, req, thread_to_join,
          current_state, state_changed, warned, stepsSinceStop, leaked, oldLoopAlive,
          op, steps, now, last_emit_time, loop_start_time, published_at>>

\* The variables of the controller, and those of the direct calls.
appVars == <<simulation_thread, lock, pc, req, thread_to_join, current_state,
             state_changed, warned, stepsSinceStop, leaked, oldLoopAlive>>
callVars == <<op, steps>>
clockVars == <<now, last_emit_time, loop_start_time, published_at>>

\* --------------------------------------------------------------- models.py

Abs(x) == IF x < 0 THEN -x ELSE x

\* Points and vectors of the plane are pairs; a distance is kept exactly, as
\* the pair <<n, d>> of the numerator and the denominator of its square.
Dot(u, v) == u[1] * v[1] + u[2] * v[2]
Minus(u, v) == <<u[1] - v[1], u[2] - v[2]>>
Norm(u) == <<Dot(u, u), 1>>
LessThan(distance, r) == r > 0 /\ distance[1] < r * r * distance[2]

\* The projection is not brought back onto the segment.
point_segment_distance_unclipped(p, a, b) ==
    LET ap == Minus(p, a)
        ab == Minus(b, a)
        ab_squared == Dot(ab, ab)
    IN IF ab_squared = 0 THEN Norm(ap)
       ELSE LET t == Dot(ap, ab)
                off == <<ab_squared * ap[1] - t * ab[1], ab_squared * ap[2] - t * ab[2]>>
            IN <<Dot(off, off), ab_squared * ab_squared>>

\* point_segment_distance: t is kept multiplied by ab_squared, and
\* p - closest_point likewise.
point_segment_distance(p, a, b) ==
    LET ap == Minus(p, a)
        ab == Minus(b, a)
        ab_squared == Dot(ab, ab)
    IN IF ab_squared = 0 THEN Norm(ap)
       ELSE LET dot == Dot(ap, ab)
                t == IF dot < 0 THEN 0 ELSE IF dot > ab_squared THEN ab_squared ELSE dot
                off == <<ab_squared * ap[1] - t * ab[1], ab_squared * ap[2] - t * ab[2]>>
            IN <<Dot(off, off), ab_squared * ab_squared>>

\* Environment.__init__: the obstacles are sorted by their type.
Environment(walls, obstacles) ==
    [walls |-> walls,
     obstacles |-> obstacles,
     np_walls |-> walls,
     np_obstacles_circles |-> SelectSeq(obstacles, LAMBDA obs : obs.type = "circle"),
     np_obstacles_rectangles |-> SelectSeq(obstacles, LAMBDA obs : obs.type = "rectangle")]

\* Environment.is_accessible; the rectangle's bounds are kept doubled, its half
\* width and half height need not be whole.
is_accessible(environment, position, person_radius) ==
    /\ \A i \in 1..Len(environment.np_walls) :
          ~LessThan(point_segment_distance(position, environment.np_walls[i][1],
                                           environment.np_walls[i][2]),
                    person_radius)
    /\ \A i \in 1..Len(environment.np_obstacles_circles) :
          LET obs == environment.np_obstacles_circles[i]
          IN ~LessThan(Norm(Minus(position, obs.center)), obs.radius + person_radius)
    /\ \A i \in 1..Len(environment.np_obstacles_rectangles) :
          LET obs == environment.np_obstacles_rectangles[i]
              min_x == 2 * obs.center[1] - obs.width - 2 * person_radius
              max_x == 2 * obs.center[1] + obs.width + 2 * person_radius
              min_y == 2 * obs.center[2] - obs.height - 2 * person_radius
              max_y == 2 * obs.center[2] + obs.height + 2 * person_radius
          IN ~(/\ min_x <= 2 * position[1] /\ 2 * position[1] <= max_x
               /\ min_y <= 2 * position[2] /\ 2 * position[2] <= max_y)

Person(id, initial_position, speed, size, destination) ==
    [id |-> id, position |-> initial_position, speed |-> speed, size |-> size,
     destination |-> destination, velocity |-> 0]

\* A person whose id is present takes the place of the stored one.
add_person_replaces(s, person) ==
    IF \E i \in 1..Len(s.persons) : s.persons[i].id = person.id
    THEN [s EXCEPT !.persons = [i \in 1..Len(s.persons) |->
            IF s.persons[i].id = person.id THEN person ELSE s.persons[i]]]
    ELSE [s EXCEPT !.persons = Append(@, person)]

\* Simulator.add_person: an id already present is skipped.
add_person(s, person) ==
    IF \E i \in 1..Len(s.persons) : s.persons[i].id = person.id
    THEN s
    ELSE [s EXCEPT !.persons = Append(@, person)]

RECURSIVE add_persons(_, _)
add_persons(s, persons) ==
    IF persons = <<>> THEN s
    ELSE add_persons(add_person(s, Head(persons)), Tail(persons))

\* Simulator.__init__; gen stands for the identity of the new object.
Simulator(gen, persons) ==
    add_persons([gen |-> gen, persons |-> <<>>, time |-> 0, is_running |-> FALSE],
                persons)

\* DataLoader.load_persons: ids 0.., the fixed radius, a position the
\* generator picks at random (farther from the destination than the arrival
\* threshold), a destination on the wall. The first person is always placed;
\* a later one is given up when every attempt (ten per requested person)
\* lands on a person already placed, so fewer than num_persons may come back.
load_persons(num_persons) ==
    UNION { { [i \in 1..placed |-> Person(i - 1, pos[i], 1, PersonRadius, 0)] :
                pos \in [1..placed -> ((3 * PersonRadius) \div 2 + 1)..MaxPos] } :
            placed \in (IF num_persons > 0 THEN 1 ELSE 0)..num_persons }

\* distance > arrival_threshold, with arrival_threshold = size * 1.5.
Beyond(person, size) == 2 * Abs(person.destination - person.position) > 3 * size

\* The preferred velocity always heads for the destination.
pref_vel_never_zero(person) ==
    IF person.destination >= person.position THEN person.speed ELSE -person.speed

\* The preferred velocity of step's first loop.
pref_vel(person) ==
    IF Beyond(person, person.size)
    THEN (IF person.destination > person.position THEN person.speed ELSE -person.speed)
    ELSE 0

\* setAgentPrefVelocity of step's first loop: what the engine is handed,
\* computed from the positions the step starts from.
handed(s) == [i \in 1..Len(s.persons) |-> pref_vel(s.persons[i])]

\* What the engine's doStep may return for the agents: the preferred velocity,
\* or a halt where avoidance holds the agent back; among other agents, any
\* velocity within maxSpeed (reciprocal avoidance moves an agent out of the
\* way of another, whatever it prefers).
doStep(s) ==
    { v \in [1..Len(s.persons) -> -1..1] :
        \A i \in 1..Len(s.persons) :
            \/ v[i] \in {handed(s)[i], 0}
            \/ Len(s.persons) > 1 /\ Abs(v[i]) <= s.persons[i].speed }

\* The engine's agent ids, as add_person records them: addAgent numbers the
\* agents from 0 in the order they were added.
person_id_to_rvo_agent_id(s) ==
    {<<s.persons[i].id, i - 1>> : i \in 1..Len(s.persons)}

\* The update also moves the destination along.
step_move_retargets(s, v) ==
    [s EXCEPT !.persons = [i \in 1..Len(s.persons) |->
        [s.persons[i] EXCEPT !.position = @ + v[i], !.velocity = v[i],
                             !.destination = @ + v[i]]]]

\* Simulator.step, lines 257-270: positions and velocities are written.
step_move(s, v) ==
    [s EXCEPT !.persons = [i \in 1..Len(s.persons) |->
        [s.persons[i] EXCEPT !.position = @ + v[i], !.velocity = v[i]]]]

\* stop flips the flag.
stop_toggles(s) == [s EXCEPT !.is_running = ~@]

\* Simulator.stop.
stop(s) == IF s.is_running THEN [s EXCEPT !.is_running = FALSE] ELSE s

\* start that also rewinds the clock.
start_resets_clock(s) == [s EXCEPT !.is_running = TRUE, !.time = 0]

\* Simulator.start.
start(s) == IF ~s.is_running THEN [s EXCEPT !.is_running = TRUE] ELSE s

\* all_reached of step's second loop: arrival_threshold is the variable the
\* first loop left behind, the threshold of the last person.
all_reached(s) ==
    \A i \in 1..Len(s.persons) :
        ~Beyond(s.persons[i], s.persons[Len(s.persons)].size)

\* The clock is left where it was.
step_clock_kept(s) ==
    IF all_reached(s) /\ Len(s.persons) > 0 THEN stop(s) ELSE s

\* Simulator.step, lines 281-287: the clock (the engine's, which doStep has
\* advanced by the time step), then the automatic stop.
step_clock(s) ==
    LET t == [s EXCEPT !.time = @ + 1]
    IN IF all_reached(t) /\ Len(t.persons) > 0 THEN stop(t) ELSE t

\* step without its guard.
step_unguarded(s) ==
    [raised : {TRUE}, s : {s}] \cup
    [raised : {FALSE}, s : {step_clock(step_move(s, v)) : v \in doStep(s)}]

\* Simulator.step as one call: nothing when not running; when doStep raises
\* the call returns with nothing written; otherwise positions, clock, stop.
step(s) ==
    IF ~s.is_running THEN [raised : {FALSE}, s : {s}]
    ELSE [raised : {TRUE}, s : {s}] \cup
         [raised : {FALSE}, s : {step_clock(step_move(s, v)) : v \in doStep(s)}]

\* Simulator.is_simulation_complete is called by start_simulation and is not
\* defined in models.py: every agent has arrived.
is_simulation_complete(s) ==
    \A i \in 1..Len(s.persons) : ~Beyond(s.persons[i], s.persons[i].size)

\* A loop has written the positions of the current step and not yet the clock.
MidStep == \E t \in Threads : pc[t] = "step_clock"

\* The persons of the snapshot are the Simulator's own.
get_state_live(s, p) ==
    [gen |-> s.gen, time |-> s.time, is_running |-> s.is_running,
     persons |-> s.persons, live |-> TRUE, partial |-> MidStep, locked |-> (lock = p)]

\* Simulator.get_state called by thread p: time and is_running are scalars,
\* every position, velocity and destination is a new list (tolist), so the
\* persons are copies (live: the snapshot shows the Simulator's persons as
\* they are now); gen names the generation whose walls, obstacles and
\* destinations the snapshot refers to.  With what the call saw (partial:
\* taken in the middle of a step; locked: p held the lock).
get_state(s, p) ==
    [gen |-> s.gen, time |-> s.time, is_running |-> s.is_running,
     persons |-> s.persons, live |-> FALSE, partial |-> MidStep, locked |-> (lock = p)]

\* ------------------------------------------------------------------ app.py

Alive(t) == pc[t] \notin {"none", "finished"}
AliveLoops == {t \in Threads : Alive(t)}
Created == {t \in Threads : pc[t] # "none"}
NewThread == CHOOSE t \in Threads : pc[t] = "none" /\ \A u \in Threads : pc[u] = "none" => t <= u

\* A request is served by the first idle handling context.
Serves(h) == pc[h] = "idle" /\ \A g \in Handlers : g > h => pc[g] # "idle"

\* The bounds: another Simulator may be constructed, another thread started.
MayConstruct == simulator.gen < MaxGen
MayStartThread == Created # Threads

\* SIMULATION_DT and EMIT_INTERVAL, in ticks of 0.05 s.
SIMULATION_DT == 1
EMIT_INTERVAL == 2

\* A local that is not assigned yet; no snapshot emitted yet.
Unset == -1

\* No loop has run, nothing has been emitted.
ClockInit ==
    /\ now = 0
    /\ last_emit_time = [t \in Threads |-> Unset]
    /\ loop_start_time = [t \in Threads |-> Unset]
    /\ published_at = Unset

\* No direct call has been made.
NoCall == [name |-> "none", persons |-> <<>>, pref |-> <<>>, raised |-> FALSE]

Init ==
    /\ \E n \in 1..MaxPersons : simulator \in {Simulator(1, ps) : ps \in load_persons(n)}
    /\ simulation_thread = NoThread
    /\ lock = Free
    /\ pc = [p \in Procs |-> IF p \in Handlers THEN "idle" ELSE "none"]
    /\ req = [h \in Handlers |-> "none"]
    /\ thread_to_join = [h \in Handlers |-> NoThread]
    /\ current_state = [p \in Procs |-> <<>>]
    /\ state_changed = [h \in Handlers |-> FALSE]
    /\ warned = [h \in Handlers |-> FALSE]
    /\ stepsSinceStop = -1
    /\ leaked = [t \in Threads |-> 0]
    /\ oldLoopAlive = [h \in Handlers |-> FALSE]
    /\ op = NoCall
    /\ steps = 0
    /\ ClockInit

\* with simulator_lock: (entering)
acquire(p, next) ==
    /\ lock = Free
    /\ lock' = p
    /\ pc' = [pc EXCEPT ![p] = next]

\* leaving the with block
release(p, next) ==
    /\ lock' = Free
    /\ pc' = [pc EXCEPT ![p] = next]

Bump(n) == IF n < 0 THEN n ELSE IF n >= 2 THEN 2 ELSE n + 1

\* ---- simulation_loop (lines 42-77)

\* line 53; a generation's clock is capped at MaxTime.
simulation_loop_acquire(t) ==
    /\ pc[t] = "top"
    /\ ~(simulator.is_running /\ simulator.time >= MaxTime)
    /\ acquire(t, "locked")
    /\ UNCHANGED <<simulator, simulation_thread, req, thread_to_join, current_state,
                   state_changed, warned, stepsSinceStop, leaked, oldLoopAlive>>
    /\ UNCHANGED <<callVars, clockVars>>

\* The loop that finds the flag false releases the lock and looks again.
simulation_loop_exit_polls(t) ==
    /\ pc[t] = "locked"
    /\ ~simulator.is_running
    /\ release(t, "top")
    /\ UNCHANGED <<simulator, simulation_thread, req, thread_to_join, current_state,
                   state_changed, warned, stepsSinceStop, leaked, oldLoopAlive>>
    /\ UNCHANGED <<callVars, clockVars>>

\* lines 54-56 and 77: the flag is false, the thread ends.
simulation_loop_exit(t) ==
    /\ pc[t] = "locked"
    /\ ~simulator.is_running
    /\ release(t, "finished")
    /\ leaked' = [leaked EXCEPT ![t] = 0]
    /\ UNCHANGED <<simulator, simulation_thread, req, thread_to_join, current_state,
                   state_changed, warned, stepsSinceStop, oldLoopAlive>>
    /\ UNCHANGED <<callVars, clockVars>>

\* line 57, Simulator.step up to line 278: the engine runs, positions move.
simulation_loop_step_move(t) ==
    /\ pc[t] = "locked"
    /\ simulator.is_running
    /\ \E v \in doStep(simulator) : simulator' = step_move(simulator, v)
    /\ pc' = [pc EXCEPT ![t] = "step_clock"]
    /\ stepsSinceStop' = Bump(stepsSinceStop)
    /\ UNCHANGED <<simulation_thread, lock, req, thread_to_join, current_state,
                   state_changed, warned, leaked, oldLoopAlive>>
    /\ UNCHANGED <<callVars, clockVars>>

\* line 57, Simulator.step lines 250-255: doStep raises, step returns.
simulation_loop_step_error(t) ==
    /\ pc[t] = "locked"
    /\ simulator.is_running
    /\ pc' = [pc EXCEPT ![t] = "snapshot"]
    /\ UNCHANGED <<simulator, simulation_thread, lock, req, thread_to_join, current_state,
                   state_changed, warned, stepsSinceStop, leaked, oldLoopAlive>>
    /\ UNCHANGED <<callVars, clockVars>>

\* line 57, Simulator.step lines 281-287.
simulation_loop_step_clock(t) ==
    /\ pc[t] = "step_clock"
    /\ simulator' = step_clock(simulator)
    /\ pc' = [pc EXCEPT ![t] = "snapshot"]
    /\ UNCHANGED <<simulation_thread, lock, req, thread_to_join, current_state,
                   state_changed, warned, stepsSinceStop, leaked, oldLoopAlive>>
    /\ UNCHANGED <<callVars, clockVars>>

\* lines 59-62 and the end of the with block: the state is copied when the
\* emit interval has elapsed.
simulation_loop_snapshot(t) ==
    /\ pc[t] = "snapshot"
    /\ \E elapsed \in BOOLEAN :
        /\ current_state' = [current_state EXCEPT
                ![t] = IF elapsed THEN <<get_state(simulator, t)>> ELSE <<>>]
        /\ release(t, IF elapsed THEN "emit" ELSE "top")
    /\ UNCHANGED <<simulator, simulation_thread, req, thread_to_join,
                   state_changed, warned, stepsSinceStop, leaked, oldLoopAlive>>
    /\ UNCHANGED <<callVars, clockVars>>

\* lines 65-75: emit, then sleep.
simulation_loop_emit(t) ==
    /\ pc[t] = "emit"
    /\ current_state' = [current_state EXCEPT ![t] = <<>>]
    /\ pc' = [pc EXCEPT ![t] = "top"]
    /\ UNCHANGED <<simulator, simulation_thread, lock, req, thread_to_join,
                   state_changed, warned, stepsSinceStop, leaked, oldLoopAlive>>
    /\ UNCHANGED <<callVars, clockVars>>

\* ---- simulation_loop with the wall clock (lines 42-77)

\* Time passes.
tick ==
    /\ now < MaxNow
    /\ now' = now + 1
    /\ UNCHANGED <<simulator, appVars, callVars, last_emit_time, loop_start_time,
                   published_at>>

\* lines 46 and 50: the thread begins to run.
simulation_loop_begin(t) ==
    /\ pc[t] = "top"
    /\ last_emit_time[t] = Unset
    /\ last_emit_time' = [last_emit_time EXCEPT ![t] = now]
    /\ loop_start_time' = [loop_start_time EXCEPT ![t] = now]
    /\ UNCHANGED <<simulator, appVars, callVars, now, published_at>>

\* line 53, once the thread has begun.
simulation_loop_acquire_timed(t) ==
    /\ last_emit_time[t] # Unset
    /\ simulation_loop_acquire(t)

\* lines 59-62 and the end of the with block: the state is copied when
\* EMIT_INTERVAL has passed since last_emit_time.
simulation_loop_snapshot_timed(t) ==
    /\ pc[t] = "snapshot"
    /\ LET current_time == now
       IN IF current_time - last_emit_time[t] >= EMIT_INTERVAL
          THEN /\ current_state' = [current_state EXCEPT ![t] = <<get_state(simulator, t)>>]
               /\ last_emit_time' = [last_emit_time EXCEPT ![t] = current_time]
               /\ release(t, "emit")
          ELSE /\ current_state' = [current_state EXCEPT ![t] = <<>>]
               /\ release(t, "sleep")
               /\ UNCHANGED last_emit_time
    /\ UNCHANGED <<simulator, simulation_thread, req, thread_to_join,
                   state_changed, warned, stepsSinceStop, leaked, oldLoopAlive>>
    /\ UNCHANGED <<callVars, now, loop_start_time, published_at>>

\* lines 65-67: the snapshot is emitted.
simulation_loop_emit_timed(t) ==
    /\ pc[t] = "emit"
    /\ current_state' = [current_state EXCEPT ![t] = <<>>]
    /\ published_at' = now
    /\ pc' = [pc EXCEPT ![t] = "sleep"]
    /\ UNCHANGED <<simulator, simulation_thread, lock, req, thread_to_join,
                   state_changed, warned, stepsSinceStop, leaked, oldLoopAlive>>
    /\ UNCHANGED <<callVars, now, last_emit_time, loop_start_time>>

\* lines 71-75 and 50: the sleep ends no earlier than SIMULATION_DT after the
\* iteration began, and the next iteration begins.
simulation_loop_sleep(t) ==
    /\ pc[t] = "sleep"
    /\ now - loop_start_time[t] >= SIMULATION_DT
    /\ pc' = [pc EXCEPT ![t] = "top"]
    /\ loop_start_time' = [loop_start_time EXCEPT ![t] = now]
    /\ UNCHANGED <<simulator, simulation_thread, lock, req, thread_to_join, current_state,
                   state_changed, warned, stepsSinceStop, leaked, oldLoopAlive>>
    /\ UNCHANGED <<callVars, now, last_emit_time, published_at>>

\* ---- start_simulation (lines 123-161)

start_simulation_begin(h) ==
    /\ Serves(h)
    /\ MayStartThread
    /\ pc' = [pc EXCEPT ![h] = "start_lock"]
    /\ req' = [req EXCEPT ![h] = "start"]
    /\ UNCHANGED <<simulator, simulation_thread, lock, thread_to_join, current_state,
                   state_changed, warned, stepsSinceStop, leaked, oldLoopAlive>>
    /\ UNCHANGED <<callVars, clockVars>>

\* line 130; the request is served while the bounds allow what it will do.
start_simulation_acquire(h) ==
    /\ pc[h] = "start_lock"
    /\ ~simulator.is_running => MayStartThread
    /\ ~simulator.is_running /\ is_simulation_complete(simulator) => MayConstruct
    /\ acquire(h, "start_body")
    /\ UNCHANGED <<simulator, simulation_thread, req, thread_to_join, current_state,
                   state_changed, warned, stepsSinceStop, leaked, oldLoopAlive>>
    /\ UNCHANGED <<callVars, clockVars>>

\* lines 132-141: a completed simulation is replaced by a fresh one with as
\* many persons.
start_simulation_fresh(s) ==
    IF is_simulation_complete(s)
    THEN {Simulator(s.gen + 1, ps) : ps \in load_persons(Len(s.persons))}
    ELSE {s}

\* The Thread object is stored and never started.
thread_start_dropped(h) ==
    /\ simulation_thread' = NewThread
    /\ pc' = [pc EXCEPT ![h] = "start_emit"]

\* lines 145-146: the thread is created and started.
thread_start(h) ==
    /\ simulation_thread' = NewThread
    /\ pc' = [pc EXCEPT ![h] = "start_emit", ![NewThread] = "top"]

\* lines 131-152
start_simulation_body(h) ==
    /\ pc[h] = "start_body"
    /\ IF ~simulator.is_running
       THEN /\ \E s \in start_simulation_fresh(simulator) :
                  /\ simulator' = [s EXCEPT !.is_running = TRUE]
                  /\ current_state' = [current_state EXCEPT
                        ![h] = <<get_state([s EXCEPT !.is_running = TRUE], h)>>]
            /\ thread_start(h)
            /\ lock' = Free
            /\ state_changed' = [state_changed EXCEPT ![h] = TRUE]
            /\ stepsSinceStop' = -1
       ELSE /\ current_state' = [current_state EXCEPT ![h] = <<get_state(simulator, h)>>]
            /\ release(h, "start_emit")
            /\ state_changed' = [state_changed EXCEPT ![h] = FALSE]
            /\ UNCHANGED <<simulator, simulation_thread, stepsSinceStop>>
    /\ UNCHANGED <<req, thread_to_join, warned, leaked, oldLoopAlive>>
    /\ UNCHANGED <<callVars, clockVars>>

\* lines 154-161
start_simulation_emit(h) ==
    /\ pc[h] = "start_emit"
    /\ current_state' = [current_state EXCEPT ![h] = <<>>]
    /\ state_changed' = [state_changed EXCEPT ![h] = FALSE]
    /\ pc' = [pc EXCEPT ![h] = "idle"]
    /\ req' = [req EXCEPT ![h] = "none"]
    /\ UNCHANGED <<simulator, simulation_thread, lock, thread_to_join,
                   warned, stepsSinceStop, leaked, oldLoopAlive>>
    /\ UNCHANGED <<callVars, clockVars>>

\* ---- stop_running_simulation (lines 169-199), called by stop_simulation
\* (163-167), reset_simulation (215) and update_config (99)

stop_running_simulation_begin(h, r) ==
    /\ Serves(h)
    /\ r \in {"reset", "config"} => MayConstruct
    /\ pc' = [pc EXCEPT ![h] = "stop_lock1"]
    /\ req' = [req EXCEPT ![h] = r]
    /\ UNCHANGED <<simulator, simulation_thread, lock, thread_to_join, current_state,
                   state_changed, warned, stepsSinceStop, leaked, oldLoopAlive>>
    /\ UNCHANGED <<callVars, clockVars>>

stop_simulation(h) == stop_running_simulation_begin(h, "stop")

\* line 174
stop_running_simulation_acquire1(h) ==
    /\ pc[h] = "stop_lock1"
    /\ acquire(h, "stop_body1")
    /\ UNCHANGED <<simulator, simulation_thread, req, thread_to_join, current_state,
                   state_changed, warned, stepsSinceStop, leaked, oldLoopAlive>>
    /\ UNCHANGED <<callVars, clockVars>>

\* The flag is left as it is.
clear_is_running_kept(s) == s

\* line 177
clear_is_running(s) == [s EXCEPT !.is_running = FALSE]

\* lines 175-182
stop_running_simulation_body1(h) ==
    /\ pc[h] = "stop_body1"
    /\ IF simulator.is_running
       THEN /\ simulator' = clear_is_running(simulator)
            /\ thread_to_join' = [thread_to_join EXCEPT ![h] = simulation_thread]
            /\ stepsSinceStop' = 0
            /\ release(h, IF simulation_thread # NoThread THEN "stop_join" ELSE "stop_lock2")
       ELSE /\ release(h, "stop_lock2")
            /\ UNCHANGED <<simulator, thread_to_join, stepsSinceStop>>
    /\ UNCHANGED <<simulation_thread, req, current_state, state_changed, warned,
                   leaked, oldLoopAlive>>
    /\ UNCHANGED <<callVars, clockVars>>

\* join called without a timeout: it returns when the thread has ended.
stop_running_simulation_join_unbounded(h) ==
    /\ pc[h] = "stop_join"
    /\ ~Alive(thread_to_join[h])
    /\ warned' = [warned EXCEPT ![h] = FALSE]
    /\ simulation_thread' =
          IF simulation_thread = thread_to_join[h] THEN NoThread ELSE simulation_thread
    /\ pc' = [pc EXCEPT ![h] = "stop_lock2"]
    /\ UNCHANGED <<simulator, lock, req, thread_to_join, current_state,
                   state_changed, stepsSinceStop, leaked, oldLoopAlive>>
    /\ UNCHANGED <<callVars, clockVars>>

\* lines 184-192: join returns when the thread has ended or after the timeout.
stop_running_simulation_join(h) ==
    /\ pc[h] = "stop_join"
    /\ warned' = [warned EXCEPT ![h] = Alive(thread_to_join[h])]
    /\ leaked' = [leaked EXCEPT ![thread_to_join[h]] =
          IF Alive(thread_to_join[h]) /\ @ = 0 THEN Cardinality(Created) ELSE @]
    /\ simulation_thread' =
          IF simulation_thread = thread_to_join[h] THEN NoThread ELSE simulation_thread
    /\ pc' = [pc EXCEPT ![h] = "stop_lock2"]
    /\ UNCHANGED <<simulator, lock, req, thread_to_join, current_state,
                   state_changed, stepsSinceStop, oldLoopAlive>>
    /\ UNCHANGED <<callVars, clockVars>>

\* line 195
stop_running_simulation_acquire2(h) ==
    /\ pc[h] = "stop_lock2"
    /\ acquire(h, "stop_body2")
    /\ UNCHANGED <<simulator, simulation_thread, req, thread_to_join, current_state,
                   state_changed, warned, stepsSinceStop, leaked, oldLoopAlive>>
    /\ UNCHANGED <<callVars, clockVars>>

\* line 196
stop_running_simulation_body2(h) ==
    /\ pc[h] = "stop_body2"
    /\ current_state' = [current_state EXCEPT ![h] = <<get_state(simulator, h)>>]
    /\ release(h, "stop_emit")
    /\ UNCHANGED <<simulator, simulation_thread, req, thread_to_join,
                   state_changed, warned, stepsSinceStop, leaked, oldLoopAlive>>
    /\ UNCHANGED <<callVars, clockVars>>

\* lines 197-199, and the return to the caller.
stop_running_simulation_emit(h) ==
    /\ pc[h] = "stop_emit"
    /\ current_state' = [current_state EXCEPT ![h] = <<>>]
    /\ thread_to_join' = [thread_to_join EXCEPT ![h] = NoThread]
    /\ warned' = [warned EXCEPT ![h] = FALSE]
    /\ pc' = [pc EXCEPT ![h] = CASE req[h] = "reset" -> "reset_lock"
                                 [] req[h] = "config" -> "config_lock"
                                 [] OTHER -> "idle"]
    /\ req' = [req EXCEPT ![h] = IF req[h] = "stop" THEN "none" ELSE @]
    /\ UNCHANGED <<simulator, simulation_thread, lock, state_changed,
                   stepsSinceStop, leaked, oldLoopAlive>>
    /\ UNCHANGED <<callVars, clockVars>>

\* ---- reset_simulation (lines 201-257)

\* lines 202-215
reset_simulation(h) == stop_running_simulation_begin(h, "reset")

\* line 217
reset_simulation_acquire(h) ==
    /\ pc[h] = "reset_lock"
    /\ MayConstruct
    /\ acquire(h, "reset_body")
    /\ UNCHANGED <<simulator, simulation_thread, req, thread_to_join, current_state,
                   state_changed, warned, stepsSinceStop, leaked, oldLoopAlive>>
    /\ UNCHANGED <<callVars, clockVars>>

\* lines 218-243: num_persons of the request, or as many as before.
reset_simulation_body(h) ==
    /\ pc[h] = "reset_body"
    /\ \E n \in (1..MaxPersons) \cup {Len(simulator.persons)} :
       \E ps \in load_persons(n) :
        /\ simulator' = Simulator(simulator.gen + 1, ps)
        /\ current_state' = [current_state EXCEPT
              ![h] = <<get_state(Simulator(simulator.gen + 1, ps), h)>>]
    /\ oldLoopAlive' = [oldLoopAlive EXCEPT ![h] = AliveLoops # {}]
    /\ release(h, "reset_emit")
    /\ UNCHANGED <<simulation_thread, req, thread_to_join, state_changed, warned,
                   stepsSinceStop, leaked>>
    /\ UNCHANGED <<callVars, clockVars>>

\* lines 246-257
reset_simulation_emit(h) ==
    /\ pc[h] = "reset_emit"
    /\ current_state' = [current_state EXCEPT ![h] = <<>>]
    /\ oldLoopAlive' = [oldLoopAlive EXCEPT ![h] = FALSE]
    /\ pc' = [pc EXCEPT ![h] = "idle"]
    /\ req' = [req EXCEPT ![h] = "none"]
    /\ UNCHANGED <<simulator, simulation_thread, lock, thread_to_join, state_changed,
                   warned, stepsSinceStop, leaked>>
    /\ UNCHANGED <<callVars, clockVars>>

\* ---- update_config (lines 90-121)

\* lines 91-99
update_config(h) == stop_running_simulation_begin(h, "config")

\* The block is entered without the lock.
update_config_acquire_unlocked(h) ==
    /\ pc[h] = "config_lock"
    /\ MayConstruct
    /\ pc' = [pc EXCEPT ![h] = "config_body"]
    /\ UNCHANGED <<simulator, simulation_thread, lock, req, thread_to_join, current_state,
                   state_changed, warned, stepsSinceStop, leaked, oldLoopAlive>>
    /\ UNCHANGED <<callVars, clockVars>>

\* line 101
update_config_acquire(h) ==
    /\ pc[h] = "config_lock"
    /\ MayConstruct
    /\ acquire(h, "config_body")
    /\ UNCHANGED <<simulator, simulation_thread, req, thread_to_join, current_state,
                   state_changed, warned, stepsSinceStop, leaked, oldLoopAlive>>
    /\ UNCHANGED <<callVars, clockVars>>

\* lines 102-110
update_config_body(h) ==
    /\ pc[h] = "config_body"
    /\ \E n \in 1..MaxPersons : \E ps \in load_persons(n) :
        simulator' = Simulator(simulator.gen + 1, ps)
    /\ oldLoopAlive' = [oldLoopAlive EXCEPT ![h] = AliveLoops # {}]
    /\ release(h, "config_get_state")
    /\ UNCHANGED <<simulation_thread, req, thread_to_join, current_state, state_changed,
                   warned, stepsSinceStop, leaked>>
    /\ UNCHANGED <<callVars, clockVars>>

\* line 113: the lock has been released.
update_config_get_state(h) ==
    /\ pc[h] = "config_get_state"
    /\ current_state' = [current_state EXCEPT ![h] = <<get_state(simulator, h)>>]
    /\ pc' = [pc EXCEPT ![h] = "config_emit"]
    /\ UNCHANGED <<simulator, simulation_thread, lock, req, thread_to_join, state_changed,
                   warned, stepsSinceStop, leaked, oldLoopAlive>>
    /\ UNCHANGED <<callVars, clockVars>>

\* lines 115-121
update_config_emit(h) ==
    /\ pc[h] = "config_emit"
    /\ current_state' = [current_state EXCEPT ![h] = <<>>]
    /\ oldLoopAlive' = [oldLoopAlive EXCEPT ![h] = FALSE]
    /\ pc' = [pc EXCEPT ![h] = "idle"]
    /\ req' = [req EXCEPT ![h] = "none"]
    /\ UNCHANGED <<simulator, simulation_thread, lock, thread_to_join, state_changed,
                   warned, stepsSinceStop, leaked>>
    /\ UNCHANGED <<callVars, clockVars>>

\* ---- get_simulation_state (lines 259-264)

\* line 262
get_simulation_state_acquire(h) ==
    /\ Serves(h)
    /\ lock = Free
    /\ lock' = h
    /\ pc' = [pc EXCEPT ![h] = "state_body"]
    /\ req' = [req EXCEPT ![h] = "state"]
    /\ UNCHANGED <<simulator, simulation_thread, thread_to_join, current_state,
                   state_changed, warned, stepsSinceStop, leaked, oldLoopAlive>>
    /\ UNCHANGED <<callVars, clockVars>>

\* lines 263-264: the snapshot goes back to the caller.
get_simulation_state_body(h) ==
    /\ pc[h] = "state_body"
    /\ get_state(simulator, h).locked
    /\ release(h, "idle")
    /\ req' = [req EXCEPT ![h] = "none"]
    /\ UNCHANGED <<simulator, simulation_thread, thread_to_join, current_state,
                   state_changed, warned, stepsSinceStop, leaked, oldLoopAlive>>
    /\ UNCHANGED <<callVars, clockVars>>

\* ---- handle_connect (lines 267-273)

\* line 271
handle_connect_acquire(h) ==
    /\ Serves(h)
    /\ lock = Free
    /\ lock' = h
    /\ pc' = [pc EXCEPT ![h] = "connect_body"]
    /\ req' = [req EXCEPT ![h] = "connect"]
    /\ UNCHANGED <<simulator, simulation_thread, thread_to_join, current_state,
                   state_changed, warned, stepsSinceStop, leaked, oldLoopAlive>>
    /\ UNCHANGED <<callVars, clockVars>>

\* line 272
handle_connect_body(h) ==
    /\ pc[h] = "connect_body"
    /\ current_state' = [current_state EXCEPT ![h] = <<get_state(simulator, h)>>]
    /\ release(h, "connect_emit")
    /\ UNCHANGED <<simulator, simulation_thread, req, thread_to_join,
                   state_changed, warned, stepsSinceStop, leaked, oldLoopAlive>>
    /\ UNCHANGED <<callVars, clockVars>>

\* line 273
handle_connect_emit(h) ==
    /\ pc[h] = "connect_emit"
    /\ current_state' = [current_state EXCEPT ![h] = <<>>]
    /\ pc' = [pc EXCEPT ![h] = "idle"]
    /\ req' = [req EXCEPT ![h] = "none"]
    /\ UNCHANGED <<simulator, simulation_thread, lock, thread_to_join, state_changed,
                   warned, stepsSinceStop, leaked, oldLoopAlive>>
    /\ UNCHANGED <<callVars, clockVars>>

Next ==
    \/ \E t \in Threads :
        \/ simulation_loop_acquire(t)
        \/ simulation_loop_exit(t)
        \/ simulation_loop_step_move(t)
        \/ simulation_loop_step_error(t)
        \/ simulation_loop_step_clock(t)
        \/ simulation_loop_snapshot(t)
        \/ simulation_loop_emit(t)
    \/ \E h \in Handlers :
        \/ start_simulation_begin(h)
        \/ start_simulation_acquire(h)
        \/ start_simulation_body(h)
        \/ start_simulation_emit(h)
        \/ stop_simulation(h)
        \/ stop_running_simulation_acquire1(h)
        \/ stop_running_simulation_body1(h)
        \/ stop_running_simulation_join(h)
        \/ stop_running_simulation_acquire2(h)
        \/ stop_running_simulation_body2(h)
        \/ stop_running_simulation_emit(h)
        \/ reset_simulation(h)
        \/ reset_simulation_acquire(h)
        \/ reset_simulation_body(h)
        \/ reset_simulation_emit(h)
        \/ update_config(h)
        \/ update_config_acquire(h)
        \/ update_config_body(h)
        \/ update_config_get_state(h)
        \/ update_config_emit(h)
        \/ get_simulation_state_acquire(h)
        \/ get_simulation_state_body(h)
        \/ handle_connect_acquire(h)
        \/ handle_connect_body(h)
        \/ handle_connect_emit(h)

Spec == Init /\ [][Next]_vars

\* ------------------------------------------- direct calls on a Simulator
\* The Simulator of models.py driven by one caller, as test_simulation.py
\* drives it: constructed from a list of persons, then started, stepped,
\* stopped, read and replaced.

\* The lists of persons a caller may supply: ids counted from 0 or all the
\* same, a position on either side of the destination, a radius and a speed
\* that may be zero.
SimPositions == {0, MaxPos}
SimDestination == MaxPos \div 2
SimSizes == {0, 1, 2}
SimSpeeds == {0, 1}
SimIds(n) == {[i \in 1..n |-> i - 1], [i \in 1..n |-> 0]}
SimInputs ==
    UNION { { [i \in 1..n |-> Person(id[i], x[i], speed[i], size[i], SimDestination)] :
                id \in SimIds(n), x \in [1..n -> SimPositions],
                speed \in [1..n -> SimSpeeds], size \in [1..n -> SimSizes] } :
            n \in 1..MaxAgents }

Call(name) == [NoCall EXCEPT !.name = name]

\* Simulator(environment, persons, destinations)
SimInit ==
    /\ \E persons \in SimInputs :
        /\ simulator = Simulator(1, persons)
        /\ op = [Call("Simulator") EXCEPT !.persons = persons]
    /\ steps = 0
    /\ simulation_thread = NoThread
    /\ lock = Free
    /\ pc = [p \in Procs |-> IF p \in Handlers THEN "idle" ELSE "none"]
    /\ req = [h \in Handlers |-> "none"]
    /\ thread_to_join = [h \in Handlers |-> NoThread]
    /\ current_state = [p \in Procs |-> <<>>]
    /\ state_changed = [h \in Handlers |-> FALSE]
    /\ warned = [h \in Handlers |-> FALSE]
    /\ stepsSinceStop = -1
    /\ leaked = [t \in Threads |-> 0]
    /\ oldLoopAlive = [h \in Handlers |-> FALSE]
    /\ ClockInit

\* simulator = Simulator(environment, persons, destinations): the object is
\* replaced by a new one.
call_Simulator ==
    /\ MayConstruct
    /\ \E persons \in SimInputs :
        /\ simulator' = Simulator(simulator.gen + 1, persons)
        /\ op' = [Call("Simulator") EXCEPT !.persons = persons]
    /\ steps' = 0
    /\ UNCHANGED <<appVars, clockVars>>

\* simulator.add_person(person)
call_add_person ==
    /\ \E id \in 0..(MaxAgents - 1), x \in SimPositions,
          speed \in SimSpeeds, size \in SimSizes :
        /\ simulator' = add_person(simulator, Person(id, x, speed, size, SimDestination))
        /\ op' = [Call("add_person") EXCEPT
                    !.persons = <<Person(id, x, speed, size, SimDestination)>>]
    /\ UNCHANGED <<steps, appVars, clockVars>>

\* simulator.start()
call_start ==
    /\ simulator' = start(simulator)
    /\ op' = Call("start")
    /\ UNCHANGED <<steps, appVars, clockVars>>

\* simulator.stop()
call_stop ==
    /\ simulator' = stop(simulator)
    /\ op' = Call("stop")
    /\ UNCHANGED <<steps, appVars, clockVars>>

\* simulator.step(); a generation's clock is capped at MaxTime.
call_step ==
    /\ simulator.time < MaxTime
    /\ \E r \in step(simulator) :
        /\ simulator' = r.s
        /\ op' = [Call("step") EXCEPT
                    !.pref = IF simulator.is_running THEN handed(simulator) ELSE <<>>,
                    !.raised = r.raised]
        /\ steps' = IF simulator.is_running /\ ~r.raised THEN steps + 1 ELSE steps
    /\ UNCHANGED <<appVars, clockVars>>

\* simulator.get_state()
call_get_state ==
    /\ op' = [Call("get_state") EXCEPT !.persons = get_state(simulator, Free).persons]
    /\ UNCHANGED <<simulator, steps, appVars, clockVars>>

SimNext ==
    \/ call_Simulator
    \/ call_start
    \/ call_stop
    \/ call_step
    \/ call_get_state

SimSpec == SimInit /\ [][SimNext]_vars

\* Start and stop requests alone, against the loops.
NextStartStop ==
    \/ \E t \in Threads :
        \/ simulation_loop_acquire(t)
        \/ simulation_loop_exit(t)
        \/ simulation_loop_step_move(t)
        \/ simulation_loop_step_error(t)
        \/ simulation_loop_step_clock(t)
        \/ simulation_loop_snapshot(t)
        \/ simulation_loop_emit(t)
    \/ \E h \in Handlers :
        \/ start_simulation_begin(h)
        \/ start_simulation_acquire(h)
        \/ start_simulation_body(h)
        \/ start_simulation_emit(h)
        \/ stop_simulation(h)
        \/ stop_running_simulation_acquire1(h)
        \/ stop_running_simulation_body1(h)
        \/ stop_running_simulation_join(h)
        \/ stop_running_simulation_acquire2(h)
        \/ stop_running_simulation_body2(h)
        \/ stop_running_simulation_emit(h)

\* Scheduling: a thread that holds the lock runs on to the release (no locked
\* block waits for anything); a handler runs its unlocked statements, its
\* bounded join included, and gets the lock if it is free again and again.
\* Nothing is assumed of a loop outside its locked block: its emit may block
\* and its sleep may last.
Fairness ==
    /\ \A t \in Threads :
        /\ WF_vars(simulation_loop_exit(t))
        /\ WF_vars(simulation_loop_step_move(t) \/ simulation_loop_step_error(t))
        /\ WF_vars(simulation_loop_step_clock(t))
        /\ WF_vars(simulation_loop_snapshot(t))
    /\ \A h \in Handlers :
        /\ WF_vars(start_simulation_body(h))
        /\ SF_vars(stop_running_simulation_acquire1(h))
        /\ WF_vars(stop_running_simulation_body1(h))
        /\ WF_vars(stop_running_simulation_join(h))
        /\ SF_vars(stop_running_simulation_acquire2(h))
        /\ WF_vars(stop_running_simulation_body2(h))
        /\ WF_vars(stop_running_simulation_emit(h))

FairSpec == Init /\ [][NextStartStop]_vars /\ Fairness

\* Fair scheduling of the loops: a loop gets the lock if it is free again and
\* again, its emit returns and its sleep ends, and whoever holds the lock, a
\* loop or a handler, runs on to the release.
LoopFairness ==
    /\ \A t \in Threads :
        /\ SF_vars(simulation_loop_acquire(t))
        /\ WF_vars(simulation_loop_exit(t))
        /\ WF_vars(simulation_loop_step_move(t) \/ simulation_loop_step_error(t))
        /\ WF_vars(simulation_loop_step_clock(t))
        /\ WF_vars(simulation_loop_snapshot(t))
        /\ WF_vars(simulation_loop_emit(t))
    /\ \A h \in Handlers :
        /\ WF_vars(start_simulation_body(h))
        /\ WF_vars(stop_running_simulation_body1(h))
        /\ WF_vars(stop_running_simulation_body2(h))

FairLoopSpec == Init /\ [][NextStartStop]_vars /\ LoopFairness

\* The controller over a Simulator of up to MaxAgents persons, with start
\* requests only: the loop runs until the simulation completes.
StartInit ==
    /\ \E n \in 1..MaxAgents : simulator \in {Simulator(1, ps) : ps \in load_persons(n)}
    /\ simulation_thread = NoThread
    /\ lock = Free
    /\ pc = [p \in Procs |-> IF p \in Handlers THEN "idle" ELSE "none"]
    /\ req = [h \in Handlers |-> "none"]
    /\ thread_to_join = [h \in Handlers |-> NoThread]
    /\ current_state = [p \in Procs |-> <<>>]
    /\ state_changed = [h \in Handlers |-> FALSE]
    /\ warned = [h \in Handlers |-> FALSE]
    /\ stepsSinceStop = -1
    /\ leaked = [t \in Threads |-> 0]
    /\ oldLoopAlive = [h \in Handlers |-> FALSE]
    /\ op = NoCall
    /\ steps = 0
    /\ ClockInit

NextStart ==
    \/ \E t \in Threads :
        \/ simulation_loop_acquire(t)
        \/ simulation_loop_exit(t)
        \/ simulation_loop_step_move(t)
        \/ simulation_loop_step_error(t)
        \/ simulation_loop_step_clock(t)
        \/ simulation_loop_snapshot(t)
        \/ simulation_loop_emit(t)
    \/ \E h \in Handlers :
        \/ start_simulation_begin(h)
        \/ start_simulation_acquire(h)
        \/ start_simulation_body(h)
        \/ start_simulation_emit(h)

StartSpec == StartInit /\ [][NextStart]_vars

\* The controller with the wall clock: the loops and start requests.
TimedNext ==
    \/ tick
    \/ \E t \in Threads :
        \/ simulation_loop_begin(t)
        \/ simulation_loop_acquire_timed(t)
        \/ simulation_loop_exit(t)
        \/ simulation_loop_step_move(t)
        \/ simulation_loop_step_error(t)
        \/ simulation_loop_step_clock(t)
        \/ simulation_loop_snapshot_timed(t)
        \/ simulation_loop_emit_timed(t)
        \/ simulation_loop_sleep(t)
    \/ \E h \in Handlers :
        \/ start_simulation_begin(h)
        \/ start_simulation_acquire(h)
        \/ start_simulation_body(h)
        \/ start_simulation_emit(h)

TimedSpec == Init /\ [][TimedNext]_vars

\* ------------------------------------------------------------------ claims

EmitPcs == {"emit", "start_emit", "stop_emit", "reset_emit", "config_emit", "connect_emit"}
LockedPcs == {"locked", "step_clock", "snapshot", "start_body", "stop_body1", "stop_body2",
              "reset_body", "config_body", "state_body", "connect_body"}
Holding(h) == current_state[h] # <<>>
Held(h) == current_state[h][1]

\* C1: at most one stepping loop is alive at any time.
C1_AtMostOneLoop == Cardinality(AliveLoops) <= 1

\* C2: a start request handled while the simulator is not running and no loop
\* is alive leaves is_running true, exactly one loop started (the one
\* simulation_thread names), the lock released, and reports the change.
C2_StartFromIdle ==
    [][\A h \in Handlers :
        (pc[h] = "start_body" /\ pc'[h] # "start_body"
            /\ ~simulator.is_running /\ AliveLoops = {})
        => /\ simulator'.is_running
           /\ Cardinality(AliveLoops') = 1
           /\ simulation_thread' \in AliveLoops'
           /\ lock' = Free
           /\ state_changed'[h]]_vars

\* C2: a start from idle has just finished its locked block.
C2_Witness ==
    \E h \in Handlers :
        /\ pc[h] = "start_emit" /\ state_changed[h]
        /\ simulator.is_running /\ lock = Free
        /\ Cardinality(Created) = 1 /\ Cardinality(AliveLoops) = 1

\* C3: after a stop request has cleared is_running, and until a start request
\* sets it again, at most one step changes the clock or a position.
C3_AtMostOneStepAfterStop == stepsSinceStop <= 1

\* C3: a loop that had stepped has observed the cleared flag and ended.
C3_Witness ==
    /\ stepsSinceStop = 0
    /\ simulator.time > 0
    /\ \E t \in Threads : pc[t] = "finished"
    /\ \E h \in Handlers : pc[h] = "stop_emit" /\ req[h] = "stop"

\* C4: the simulator (clock, flag, positions, generation) changes only in a
\* step of the thread that holds the lock; the threads inside a locked block
\* hold the lock, so no two overlap; a snapshot taken under the lock is never
\* taken between the position writes and the clock write of a step.
C4_MutationsUnderLock ==
    [][/\ simulator' # simulator =>
            /\ lock \in Procs
            /\ pc[lock] \in LockedPcs
            /\ pc'[lock] # pc[lock]
       /\ \A p \in Procs : pc[p] \in LockedPcs => lock = p
       /\ \A p \in Procs :
            Holding(p)' /\ Held(p)'.locked => ~Held(p)'.partial]_vars

\* C4: a loop is in the middle of a step of a replaced generation, holding
\* the lock, while a reset waits to replace the generation again.
C4_Witness ==
    \E h \in Handlers : \E t \in Threads :
        /\ pc[t] = "step_clock" /\ lock = t
        /\ simulator.gen > 1
        /\ pc[h] \in {"stop_lock1", "reset_lock", "config_lock"}

\* C5: every get_state call of the controller is made by a thread that holds
\* simulator_lock.
C5_GetStateUnderLock == \A p \in Procs : Holding(p) => Held(p).locked

\* C6: a thread that emits a snapshot does not hold the lock, and the snapshot
\* it emits was copied while it held the lock.
C6_CopyUnderLockEmitOutside ==
    \A p \in Procs : pc[p] \in EmitPcs => lock # p /\ Holding(p) /\ Held(p).locked

\* C7: the snapshot a reset or a configuration update publishes is the fresh
\* generation's (the current generation at time 0, not running), and no loop
\* was alive when the generation was replaced.
C7_FreshSnapshotOldLoopStopped ==
    \A h \in Handlers : pc[h] \in {"reset_emit", "config_emit"} =>
        /\ Held(h).time = 0
        /\ ~Held(h).is_running
        /\ ~oldLoopAlive[h]

StopPcs == {"stop_lock1", "stop_body1", "stop_join", "stop_lock2", "stop_body2", "stop_emit"}

\* C8: every call of stop_running_simulation returns, whatever the loops do;
\* its first block leaves is_running false and the lock released, the join
\* warns exactly when the joined loop is still alive, and what it emits is a
\* snapshot copied under the lock after the join.
C8_StopReturns ==
    /\ \A h \in Handlers : (pc[h] \in StopPcs) ~> (pc[h] \notin StopPcs)
    /\ [][\A h \in Handlers :
            /\ (pc[h] = "stop_body1" /\ pc'[h] # "stop_body1")
                => ~simulator'.is_running /\ lock' = Free
            /\ (pc[h] = "stop_join" /\ pc'[h] # "stop_join")
                => warned'[h] = Alive(thread_to_join[h])
            /\ (pc[h] = "stop_body2" /\ pc'[h] # "stop_body2")
                => Held(h)' = get_state(simulator, h) /\ Held(h)'.locked]_vars

\* C8: a stop request whose join timed out on a live loop goes on to publish.
C8_Witness ==
    \E h \in Handlers :
        /\ pc[h] = "stop_emit" /\ req[h] = "stop" /\ warned[h]
        /\ Alive(thread_to_join[h])

\* C9: while a loop whose join timed out is still alive, no start request
\* begins another loop.
C9_NoStartWhileLeaked ==
    \A t \in Threads : leaked[t] > 0 /\ Alive(t) =>
        \A u \in Threads : u > leaked[t] => pc[u] = "none"

\* C10: a start request handled while is_running is true changes neither the
\* simulator (clock, agents, generation, flag) nor the threads, and
\* Simulator.start on a running simulator returns it unchanged.
C10_StartWhileRunningNoOp ==
    [][/\ \A h \in Handlers :
            (pc[h] = "start_body" /\ pc'[h] # "start_body" /\ simulator.is_running)
            => /\ simulator' = simulator
               /\ simulation_thread' = simulation_thread
               /\ \A t \in Threads : pc'[t] = pc[t]
               /\ ~state_changed'[h]
       /\ simulator.is_running => start(simulator) = simulator]_vars

\* C10: a start request found a simulator running with its clock advanced.
C10_Witness ==
    \E h \in Handlers :
        /\ pc[h] = "start_emit" /\ ~state_changed[h]
        /\ Held(h).is_running /\ Held(h).time > 0
        /\ simulator.is_running /\ simulator.time > 0

\* C11: stop is idempotent.  Simulator.stop applied twice gives what it gives
\* applied once; the first block of a stop request leaves is_running false,
\* and a stop request served while is_running is false changes neither the
\* simulator (clock, agents, flag) nor the threads, and joins nothing.
C11_StopIdempotent ==
    /\ [](stop(stop(simulator)) = stop(simulator))
    /\ [][\A h \in Handlers :
            (pc[h] = "stop_body1" /\ pc'[h] # "stop_body1")
            => /\ stop(simulator') = simulator'
               /\ ~simulator.is_running =>
                    /\ simulator' = simulator
                    /\ simulation_thread' = simulation_thread
                    /\ AliveLoops' = AliveLoops
                    /\ pc'[h] = "stop_lock2"]_vars

\* C11: a stop request has cleared the flag of a simulator that had stepped,
\* and a second stop request, with no step and no start in between, has found
\* it cleared and is about to publish.
C11_Witness ==
    \E h \in Handlers :
        /\ pc[h] = "stop_emit" /\ req[h] = "stop"
        /\ thread_to_join[h] = NoThread
        /\ stepsSinceStop = 0
        /\ simulator.time > 0 /\ ~simulator.is_running

\* An agent is within its own arrival threshold (1.5 times its radius).
Arrived(person) == 2 * Abs(person.destination - person.position) <= 3 * person.size

\* Every agent has a positive radius and a positive speed.
Valid(s) ==
    \A i \in 1..Len(s.persons) : s.persons[i].size > 0 /\ s.persons[i].speed > 0

\* C12: Simulator.step called while is_running is false changes nothing:
\* clock, positions, velocities and is_running are as they were.
C12_StepWhileStoppedNoOp ==
    [][(op'.name = "step" /\ ~simulator.is_running) => simulator' = simulator]_vars

\* C12: step has been called on a simulator that was never started and has
\* an agent away from its destination.
C12_Witness ==
    /\ op.name = "step"
    /\ ~simulator.is_running /\ simulator.time = 0 /\ steps = 0
    /\ \E i \in 1..Len(simulator.persons) :
          ~Arrived(simulator.persons[i]) /\ simulator.persons[i].speed > 0

\* C13: within a generation the clock never decreases; a step that runs to
\* its end while running advances it by exactly one time step, so that after
\* k such steps it reads k time steps; nothing else changes it.
C13_ClockAdvancesByDt ==
    /\ [](simulator.time = steps)
    /\ [][simulator'.gen = simulator.gen =>
            /\ simulator'.time >= simulator.time
            /\ (op'.name = "step" /\ simulator.is_running /\ ~op'.raised)
                    => simulator'.time = simulator.time + 1
            /\ (op'.name # "step" \/ ~simulator.is_running)
                    => simulator'.time = simulator.time]_vars

\* C13: two steps have run to the clock write, and the simulator, still
\* running, has been read since.
C13_Witness ==
    /\ steps = 2 /\ simulator.time = 2
    /\ op.name = "get_state"
    /\ simulator.is_running

\* C14: after a step that ran while running on a non-empty set of agents
\* (of positive radius and speed), is_running is false exactly when every
\* agent is within 1.5 times its own radius of its destination.
C14_StopsIffAllArrived ==
    [][(op'.name = "step" /\ simulator.is_running /\ ~op'.raised
            /\ Len(simulator.persons) > 0 /\ Valid(simulator))
        => (~simulator'.is_running
                <=> \A i \in 1..Len(simulator'.persons) : Arrived(simulator'.persons[i]))]_vars

\* C15: right after a Simulator has been constructed from a list of persons,
\* get_state returns time 0, is_running false and exactly the supplied
\* persons in the supplied order.
C15_ConfigureRoundTrip ==
    op.name = "Simulator" =>
        /\ get_state(simulator, Free).time = 0
        /\ ~get_state(simulator, Free).is_running
        /\ get_state(simulator, Free).persons = op.persons

\* C16: constructing a Simulator from a list with a person whose radius or
\* speed is not positive is refused, and the Simulator in place stays.
C16_InvalidConfigurationRejected ==
    [][(op'.name = "Simulator"
            /\ \E i \in 1..Len(op'.persons) :
                    op'.persons[i].size <= 0 \/ op'.persons[i].speed <= 0)
        => simulator' = simulator]_vars

\* C17: a step in which the engine fails is not aborted: the clock still
\* advances by one time step.
C17_EngineFailureConfined ==
    [][(op'.name = "step" /\ simulator.is_running /\ op'.raised)
        => simulator'.time = simulator.time + 1]_vars

\* What a snapshot shows now: its own fields, or the Simulator's persons
\* where it holds them by reference.
Observed(snapshot) ==
    IF snapshot.live /\ snapshot.gen = simulator.gen
    THEN [snapshot EXCEPT !.persons = simulator.persons]
    ELSE snapshot

\* C18: a snapshot is a value copy: while a thread holds one, no step, start,
\* stop, reset or configuration update of any thread changes what it shows.
C18_SnapshotIsValueCopy ==
    [][\A p \in Procs :
        (Holding(p) /\ Holding(p)' /\ pc'[p] = pc[p])
        => Observed(Held(p))' = Observed(Held(p))]_vars

\* C18: a thread holds a snapshot of the running generation whose agents have
\* moved since, and another holds a snapshot of a generation since replaced.
C18_Witness ==
    \E p, q \in Procs :
        /\ Holding(p) /\ Held(p).gen = simulator.gen
        /\ Held(p).persons # simulator.persons
        /\ Holding(q) /\ Held(q).gen # simulator.gen

\* C19: a step that runs while running (on agents of positive radius and
\* speed) leaves every agent that was at rest within its arrival threshold
\* where it was, with velocity zero.
C19_ArrivedAgentsStay ==
    [][(op'.name = "step" /\ simulator.is_running /\ ~op'.raised /\ Valid(simulator))
        => \A i \in 1..Len(simulator.persons) :
            (simulator.persons[i].velocity = 0 /\ Arrived(simulator.persons[i]))
            => /\ simulator'.persons[i].position = simulator.persons[i].position
               /\ simulator'.persons[i].velocity = 0]_vars

\* Zero within 1.5 radii of the destination, otherwise the unit vector to the
\* destination times the preferred speed.
PreferredVelocity(person) ==
    LET direction == person.destination - person.position
        distance == Abs(direction)
    IN IF 2 * distance <= 3 * person.size
       THEN 0
       ELSE (direction \div distance) * person.speed

\* C20: in every step that runs, the engine is handed, for every agent, zero
\* when the agent is within 1.5 radii of its destination and otherwise the
\* unit vector to the destination times its preferred speed, computed from
\* the positions the step starts from.
C20_PreferredVelocity ==
    [][(op'.name = "step" /\ simulator.is_running)
        => op'.pref = [i \in 1..Len(simulator.persons) |->
                            PreferredVelocity(simulator.persons[i])]]_vars

\* C20: a step has handed the engine a zero and a non-zero preferred velocity.
C20_Witness ==
    /\ op.name = "step" /\ ~op.raised
    /\ Len(op.pref) = 2
    /\ op.pref[1] = 0 /\ op.pref[2] # 0

\* ---- queries of an Environment
\* Points lie on a grid; an environment has at most one wall, one circle and
\* one rectangle, the obstacles in either order.
Grid == (0..MaxCoord) \X (0..MaxCoord)
Radii == {0, 1}
Extents == {1, 2}
Circle(center, radius) ==
    [type |-> "circle", center |-> center, radius |-> radius, width |-> 0, height |-> 0]
Rectangle(center, width, height) ==
    [type |-> "rectangle", center |-> center, radius |-> 0, width |-> width, height |-> height]
EnvWalls == {<<>>} \cup {<<<<a, b>>>> : a \in Grid, b \in Grid}
EnvCircles == {<<>>} \cup {<<Circle(<<c, c>>, r)>> : c \in 0..MaxCoord, r \in Radii}
EnvRectangles == {<<>>} \cup {<<Rectangle(<<1, 1>>, w, h)>> : w \in Extents, h \in Extents}

\* Environment(walls, obstacles)
EnvInit ==
    /\ \E walls \in EnvWalls, circles \in EnvCircles, rectangles \in EnvRectangles,
          circles_first \in BOOLEAN :
        op = [name |-> "Environment",
              environment |-> Environment(walls,
                    IF circles_first THEN circles \o rectangles
                    ELSE rectangles \o circles)]
    /\ simulator = Simulator(1, <<>>)
    /\ steps = 0
    /\ simulation_thread = NoThread
    /\ lock = Free
    /\ pc = [p \in Procs |-> IF p \in Handlers THEN "idle" ELSE "none"]
    /\ req = [h \in Handlers |-> "none"]
    /\ thread_to_join = [h \in Handlers |-> NoThread]
    /\ current_state = [p \in Procs |-> <<>>]
    /\ state_changed = [h \in Handlers |-> FALSE]
    /\ warned = [h \in Handlers |-> FALSE]
    /\ stepsSinceStop = -1
    /\ leaked = [t \in Threads |-> 0]
    /\ oldLoopAlive = [h \in Handlers |-> FALSE]
    /\ ClockInit

\* environment.is_accessible(position, person_radius)
call_is_accessible ==
    /\ \E position \in Grid, person_radius \in Radii :
        op' = [name |-> "is_accessible",
               environment |-> op.environment,
               position |-> position,
               person_radius |-> person_radius,
               accessible |-> is_accessible(op.environment, position, person_radius)]
    /\ UNCHANGED <<simulator, steps, appVars, clockVars>>

EnvNext == call_is_accessible

EnvSpec == EnvInit /\ [][EnvNext]_vars

\* Building a Simulator: the constructor, then add_person calls in any number.
AddNext ==
    \/ call_Simulator
    \/ call_add_person

AddSpec == SimInit /\ [][AddNext]_vars

\* The persons of a list that no earlier person of the list shares its id
\* with, in the order of the list.
FirstAdded(persons) ==
    LET first == {i \in 1..Len(persons) :
                    \A j \in 1..(i - 1) : persons[j].id # persons[i].id}
        nth(k) == CHOOSE i \in first : Cardinality({j \in first : j <= i}) = k
    IN [k \in 1..Cardinality(first) |-> persons[nth(k)]]

\* C21: a Simulator holds at most one agent per id, each the first one added
\* with that id: constructed from a list it holds the first person of every
\* id, and add_person with an id that is present leaves the agents and the
\* engine-id mapping as they were (a new id is appended).
C21_OneAgentPerId ==
    /\ [](\A i, j \in 1..Len(simulator.persons) :
            simulator.persons[i].id = simulator.persons[j].id => i = j)
    /\ [](op.name = "Simulator" => simulator.persons = FirstAdded(op.persons))
    /\ [][op'.name = "add_person" =>
            IF \E i \in 1..Len(simulator.persons) :
                    simulator.persons[i].id = op'.persons[1].id
            THEN /\ simulator' = simulator
                 /\ person_id_to_rvo_agent_id(simulator') = person_id_to_rvo_agent_id(simulator)
            ELSE simulator'.persons = Append(simulator.persons, op'.persons[1])]_vars

\* C21: add_person was given a person whose id is present and which differs
\* from the stored one, in a Simulator that holds two agents.
C21_Witness ==
    /\ op.name = "add_person" /\ Len(simulator.persons) = 2
    /\ \E i \in 1..Len(simulator.persons) :
          /\ simulator.persons[i].id = op.persons[1].id
          /\ simulator.persons[i] # op.persons[1]

\* C22: step, start, stop and get_state change nothing but positions,
\* velocities, the clock and the running flag: the agents, their ids, radii,
\* speeds and destinations stay, and the generation (with its environment and
\* its destination list) is replaced only by constructing a new Simulator.
C22_OnlyMotionClockFlagChange ==
    [][/\ op'.name \in {"step", "start", "stop", "get_state"} =>
            /\ simulator'.gen = simulator.gen
            /\ Len(simulator'.persons) = Len(simulator.persons)
            /\ \A i \in 1..Len(simulator.persons) :
                    simulator'.persons[i] =
                        [simulator.persons[i] EXCEPT
                            !.position = simulator'.persons[i].position,
                            !.velocity = simulator'.persons[i].velocity]
       /\ simulator'.gen # simulator.gen => op'.name = "Simulator"]_vars

\* C22: a step has moved an agent of a Simulator of two.
C22_Witness ==
    /\ op.name = "step" /\ steps > 0
    /\ Len(simulator.persons) = 2
    /\ \E i \in 1..Len(simulator.persons) : simulator.persons[i].velocity # 0

\* The point p is closer than r to the segment from a to b: to one of its ends,
\* or to the line through them at a place between the ends.
CloserThan(p, a, b, r) ==
    LET ap == Minus(p, a)
        bp == Minus(p, b)
        ab == Minus(b, a)
        cross == ab[1] * ap[2] - ab[2] * ap[1]
    IN /\ r > 0
       /\ \/ Dot(ap, ap) < r * r
          \/ Dot(bp, bp) < r * r
          \/ /\ 0 <= Dot(ap, ab) /\ Dot(ap, ab) <= Dot(ab, ab)
             /\ cross * cross < r * r * Dot(ab, ab)

\* The point lies in the probe's reach of an obstacle of the environment.
Blocked(environment, p, r) ==
    \/ \E i \in 1..Len(environment.walls) :
          CloserThan(p, environment.walls[i][1], environment.walls[i][2], r)
    \/ \E i \in 1..Len(environment.obstacles) :
          LET obs == environment.obstacles[i]
          IN \/ /\ obs.type = "circle"
                /\ obs.radius + r > 0
                /\ Dot(Minus(p, obs.center), Minus(p, obs.center))
                        < (obs.radius + r) * (obs.radius + r)
             \/ /\ obs.type = "rectangle"
                /\ 2 * Abs(p[1] - obs.center[1]) <= obs.width + 2 * r
                /\ 2 * Abs(p[2] - obs.center[2]) <= obs.height + 2 * r

\* C23: is_accessible returns false exactly when the point is closer than the
\* probe radius to a wall, or closer than radius + probe radius to a circle's
\* center, or inside a rectangle's box widened by the probe radius on every
\* side; the call leaves the environment as it was.
C23_AccessibleIffClearOfObstacles ==
    /\ [](op.name = "is_accessible" =>
            (op.accessible <=> ~Blocked(op.environment, op.position, op.person_radius)))
    /\ [][op'.environment = op.environment /\ simulator' = simulator]_vars

\* C23: a point beside a slanting wall, nearer to it than the probe radius and
\* as far as the probe radius from both its ends or farther, was refused.
C23_Witness ==
    /\ op.name = "is_accessible" /\ ~op.accessible
    /\ Len(op.environment.walls) = 1 /\ Len(op.environment.obstacles) = 0
    /\ LET a == op.environment.walls[1][1]
           b == op.environment.walls[1][2]
       IN /\ a[1] # b[1] /\ a[2] # b[2]
          /\ Dot(Minus(op.position, a), Minus(op.position, a)) >= op.person_radius * op.person_radius
          /\ Dot(Minus(op.position, b), Minus(op.position, b)) >= op.person_radius * op.person_radius

\* C27: a start request served while the simulator is not running holds the
\* lock, sets is_running and starts the loop; when the simulation is complete
\* it first puts a fresh generation in its place, with as many agents and the
\* clock at 0; when it is not complete (a pause) the generation, its agents
\* and its clock stay.
C27_StartGeneration ==
    [][\A h \in Handlers :
        pc[h] = "start_body" /\ ~simulator.is_running /\ pc'[h] # "start_body" =>
            /\ lock = h
            /\ simulator'.is_running
            /\ simulation_thread' \in Threads
            /\ pc[simulation_thread'] = "none" /\ pc'[simulation_thread'] = "top"
            /\ IF is_simulation_complete(simulator)
               THEN /\ simulator'.gen = simulator.gen + 1
                    /\ simulator'.time = 0
                    /\ Len(simulator'.persons) = Len(simulator.persons)
               ELSE simulator' = [simulator EXCEPT !.is_running = TRUE]]_vars

\* C26: under fair scheduling a loop that is alive while is_running is false
\* ends, unless is_running is set again: it takes the lock, finds the flag
\* false and exits without stepping. No handler holds the lock while it joins
\* the loop, and no loop holds it while it emits or sleeps.
C26_LoopObservesStop ==
    /\ \A t \in Threads :
          (Alive(t) /\ ~simulator.is_running) ~> (~Alive(t) \/ simulator.is_running)
    /\ [][\A t \in Threads :
            (pc[t] = "locked" /\ ~simulator.is_running /\ pc'[t] # "locked")
                => pc'[t] = "finished" /\ simulator' = simulator /\ lock' = Free]_vars
    /\ [](\A h \in Handlers : pc[h] = "stop_join" => lock # h)
    /\ [](\A t \in Threads : pc[t] \in {"top", "emit"} => lock # t)

\* C26: a loop has ended while the stop request that cleared the flag waits
\* in its join.
C26_Witness ==
    \E h \in Handlers, t \in Threads :
        /\ pc[h] = "stop_join" /\ thread_to_join[h] = t
        /\ pc[t] = "finished" /\ ~simulator.is_running /\ lock = Free

\* C28: once a step of the loop has cleared is_running (all agents arrived)
\* and no request is being served, a snapshot with is_running false comes to
\* be published, or else a further request is made.
C28_CompletionIsPublished ==
    (/\ \E t \in Threads : pc[t] = "snapshot" /\ ~simulator.is_running
     /\ \A h \in Handlers : pc[h] = "idle")
    ~> (\/ \E p \in Procs : pc[p] \in EmitPcs /\ Holding(p) /\ ~Held(p).is_running
        \/ \E h \in Handlers : pc[h] # "idle")

\* C29: snapshots of one generation are emitted in the order they were
\* copied: when a snapshot is emitted, no snapshot of the same generation
\* with an earlier clock is still waiting to be emitted.
C29_PublishedInCopyOrder ==
    [][\A q \in Procs :
        (pc[q] \in EmitPcs /\ Holding(q) /\ pc'[q] \notin EmitPcs) =>
            \A p \in Procs \ {q} :
                (pc[p] \in EmitPcs /\ Holding(p)) =>
                    ~(Held(p).gen = Held(q).gen /\ Held(p).time < Held(q).time)]_vars

\* C24: between two consecutive snapshots emitted by the stepping loop at
\* least EMIT_INTERVAL of wall-clock time has passed.
C24_EmitRateCapped ==
    [][\A t \in Threads :
        (pc[t] = "emit" /\ pc'[t] # "emit" /\ published_at # Unset)
            => now - published_at >= EMIT_INTERVAL]_vars

====
